---- MODULE Spec2Model ----
(***************************************************************************)
(* BRIK front end (src/analizer.py): the pattern-table tokenizer           *)
(* BrikTokenizer.tokenize and the recursive-descent parser BrikParser      *)
(* with its incremental symbol table.                                      *)
(*                                                                         *)
(* A source text is a sequence of characters; a character is a string.     *)
(* The two non-ASCII bracket glyphs are written "iexcl" (inverted          *)
(* exclamation mark, opens a list) and "iquest" (inverted question mark,   *)
(* opens a dictionary).  Offsets into the source are 0-based, as           *)
(* mo.start() and mo.end() are: the character at offset k is src[k + 1].   *)
(***************************************************************************)
EXTENDS Integers, Sequences, FiniteSets, TLC

VARIABLES source, tokens, lexerr, pc, i, symbols, stack, perr, result

vars == <<source, tokens, lexerr, pc, i, symbols, stack, perr, result>>

(***************************************************************************)
(* Characters                                                              *)
(***************************************************************************)
Lower == <<"a", "b", "c", "d", "e", "f", "g", "h", "i", "j", "k", "l", "m",
           "n", "o", "p", "q", "r", "s", "t", "u", "v", "w", "x", "y", "z">>

Digits == <<"0", "1", "2", "3", "4", "5", "6", "7", "8", "9">>

Range(s) == {s[k] : k \in 1..Len(s)}

IndexOf(s, c) == CHOOSE k \in 1..Len(s) : s[k] = c

\* The code points of the punctuation and blank characters the model uses.
Punct == {<<"\t", 9>>, <<"\n", 10>>, <<"\r", 13>>, <<" ", 32>>, <<"!", 33>>,
          <<"\"", 34>>, <<"#", 35>>, <<",", 44>>, <<"-", 45>>, <<".", 46>>,
          <<":", 58>>, <<"=", 61>>, <<"?", 63>>, <<"@", 64>>, <<"\\", 92>>,
          <<"_", 95>>, <<"iexcl", 161>>, <<"iquest", 191>>}

\* ord(c)
Ord(c) ==
    IF c \in Range(Lower) THEN 96 + IndexOf(Lower, c)
    ELSE IF c \in Range(Digits) THEN 47 + IndexOf(Digits, c)
    ELSE (CHOOSE p \in Punct : p[1] = c)[2]

\* chr(n); a code point outside the model's alphabet is named by its number.
Chr(n) ==
    IF n \in 97..122 THEN Lower[n - 96]
    ELSE IF n \in 48..57 THEN Digits[n - 47]
    ELSE IF \E p \in Punct : p[2] = n THEN (CHOOSE p \in Punct : p[2] = n)[1]
    ELSE "chr(" \o ToString(n) \o ")"

\* The character at 0-based offset k, "" past the end.
At(src, k) == IF k >= 0 /\ k < Len(src) THEN src[k + 1] ELSE ""

\* src[a:b]
Slice(src, a, b) == SubSeq(src, a + 1, b)

IsDigit(c) == c \in Range(Digits)

IsIdentStart(c) == c \in Range(Lower) \cup {"_"}

IsIdentChar(c) == IsIdentStart(c) \/ IsDigit(c)

IsBlank(c) == c \in {" ", "\t", "\r"}

(***************************************************************************)
(* Values.  Every Python value the front end builds is one record shape:   *)
(*   int    num                    float  num * 10^(-exp)                  *)
(*   str    str (characters)       list   items (keys empty)               *)
(*   dict   items (key, val) in insertion order                            *)
(***************************************************************************)
Val(t, n, e, s, it) == [tag |-> t, num |-> n, exp |-> e, str |-> s, items |-> it]

IntV(n) == Val("int", n, 0, <<>>, <<>>)

FloatV(n, e) == Val("float", n, e, <<>>, <<>>)

StrV(s) == Val("str", 0, 0, s, <<>>)

ListV(it) == Val("list", 0, 0, <<>>, it)

DictV(it) == Val("dict", 0, 0, <<>>, it)

Entry(k, v) == [key |-> k, val |-> v]

\* key in d
DictHas(d, k) == \E n \in 1..Len(d) : d[n].key = k

\* d[key]
DictGet(d, k) == d[CHOOSE n \in 1..Len(d) : d[n].key = k].val

\* Mutant: a key that is already there keeps its first value.
DictSet_FirstWins(d, k, v) ==
    IF DictHas(d, k) THEN d ELSE Append(d, Entry(k, v))

\* d[key] = value: an existing key keeps its place, a new one goes last.
DictSet(d, k, v) ==
    IF DictHas(d, k)
    THEN [n \in 1..Len(d) |-> IF d[n].key = k THEN Entry(k, v) ELSE d[n]]
    ELSE Append(d, Entry(k, v))

\* {"ref": name}
RefV(name) == DictV(<<Entry(<<"r", "e", "f">>, StrV(name))>>)

(***************************************************************************)
(* BrikTokenizer._SPEC: the alternatives of _MASTER, tried in this order   *)
(* at one offset.  Each matcher gives the match's end offset, or -1.       *)
(***************************************************************************)
RECURSIVE ScanDigits(_, _)
\* \d* from offset k
ScanDigits(src, k) == IF IsDigit(At(src, k)) THEN ScanDigits(src, k + 1) ELSE k

RECURSIVE ScanIdent(_, _)
\* [A-Za-z0-9_]* from offset k
ScanIdent(src, k) == IF IsIdentChar(At(src, k)) THEN ScanIdent(src, k + 1) ELSE k

RECURSIVE ScanBlank(_, _)
\* [ \t\r]* from offset k
ScanBlank(src, k) == IF IsBlank(At(src, k)) THEN ScanBlank(src, k + 1) ELSE k

RECURSIVE ScanLine(_, _)
\* .* from offset k: up to, not including, the next newline
ScanLine(src, k) ==
    IF k < Len(src) /\ At(src, k) # "\n" THEN ScanLine(src, k + 1) ELSE k

RECURSIVE ScanBody(_, _)
\* (?:\\.|[^"\\])*" from offset k: the end after the closing quote, or -1
ScanBody(src, k) ==
    IF k >= Len(src) THEN -1
    ELSE IF At(src, k) = "\"" THEN k + 1
    ELSE IF At(src, k) = "\\"
         THEN IF k + 1 < Len(src) /\ At(src, k + 1) # "\n"
              THEN ScanBody(src, k + 2)
              ELSE -1
    ELSE ScanBody(src, k + 1)

\* ("COMMENT", r"\#.*")
MatchComment(src, p) == IF At(src, p) = "#" THEN ScanLine(src, p + 1) ELSE -1

\* ("STRING", r"\"(?:\\.|[^\"\\])*\"")
MatchString(src, p) == IF At(src, p) = "\"" THEN ScanBody(src, p + 1) ELSE -1

\* ("NUMBER", r"-?(?:\d+\.\d*|\.\d+|\d+)")
MatchNumber(src, p) ==
    LET q == IF At(src, p) = "-" THEN p + 1 ELSE p
        d == ScanDigits(src, q)
    IN  IF d > q /\ At(src, d) = "." THEN ScanDigits(src, d + 1)
        ELSE IF At(src, q) = "." /\ ScanDigits(src, q + 1) > q + 1
             THEN ScanDigits(src, q + 1)
        ELSE IF d > q THEN d
        ELSE -1

\* ("IDENT", r"[A-Za-z_][A-Za-z0-9_]*")
MatchIdent(src, p) ==
    IF IsIdentStart(At(src, p)) THEN ScanIdent(src, p + 1) ELSE -1

\* Mutant: only the space is skipped, a tab or a carriage return is not.
MatchSkip_SpacesOnly(src, p) ==
    LET RECURSIVE Spaces(_)
        Spaces(k) == IF At(src, k) = " " THEN Spaces(k + 1) ELSE k
    IN  IF At(src, p) = " " THEN Spaces(p + 1) ELSE -1

\* ("SKIP", r"[ \t\r]+")
MatchSkip(src, p) == IF IsBlank(At(src, p)) THEN ScanBlank(src, p + 1) ELSE -1

\* One match of _MASTER at offset p < len(src): lastgroup and mo.end().
\* Some alternative matches at every offset, so finditer skips no character.
Match(src, p) ==
    LET c == At(src, p)
        M(k, e) == [kind |-> k, end |-> e]
    IN  IF MatchComment(src, p) >= 0 THEN M("COMMENT", MatchComment(src, p))
        ELSE IF MatchString(src, p) >= 0 THEN M("STRING", MatchString(src, p))
        ELSE IF MatchNumber(src, p) >= 0 THEN M("NUMBER", MatchNumber(src, p))
        ELSE IF c = ":" /\ At(src, p + 1) = "=" THEN M("ASSIGN_COLON", p + 2)
        ELSE IF c = "iquest" THEN M("LDICT", p + 1)
        ELSE IF c = "?" THEN M("RDICT", p + 1)
        ELSE IF c = "iexcl" THEN M("LLIST", p + 1)
        ELSE IF c = "!" THEN M("RLIST", p + 1)
        ELSE IF c = "," THEN M("COMMA", p + 1)
        ELSE IF MatchIdent(src, p) >= 0 THEN M("IDENT", MatchIdent(src, p))
        ELSE IF c = "\n" THEN M("NEWLINE", p + 1)
        ELSE IF MatchSkip(src, p) >= 0 THEN M("SKIP", MatchSkip(src, p))
        ELSE M("MISMATCH", p + 1)

(***************************************************************************)
(* Token values                                                            *)
(***************************************************************************)
\* text.encode("utf-8"), for the code points below 0x800 the alphabet holds
Utf8(c) ==
    LET n == Ord(c)
    IN  IF n < 128 THEN <<n>> ELSE <<192 + (n \div 64), 128 + (n % 64)>>

RECURSIVE Bytes(_)
\* bytes(text, "utf-8")
Bytes(text) ==
    IF text = <<>> THEN <<>> ELSE Utf8(Head(text)) \o Bytes(Tail(text))

IsOct(b) == b \in 48..55

IsHex(b) == b \in 48..57 \/ b \in 97..102 \/ b \in 65..70

HexVal(b) == IF b \in 48..57 THEN b - 48 ELSE IF b \in 97..102 THEN b - 87 ELSE b - 55

RECURSIVE HexRun(_, _, _, _)
\* The value of the n hex digits from index k (1-based), -1 when one is missing.
HexRun(bs, k, n, acc) ==
    IF n = 0 THEN acc
    ELSE IF k > Len(bs) \/ ~IsHex(bs[k]) THEN -1
    ELSE HexRun(bs, k + 1, n - 1, acc * 16 + HexVal(bs[k]))

\* How many of the up to three bytes from index k are octal digits.
OctLen(bs, k) ==
    IF k + 1 <= Len(bs) /\ IsOct(bs[k + 1])
    THEN IF k + 2 <= Len(bs) /\ IsOct(bs[k + 2]) THEN 3 ELSE 2
    ELSE 1

RECURSIVE OctRun(_, _, _, _)
OctRun(bs, k, n, acc) ==
    IF n = 0 THEN acc ELSE OctRun(bs, k + 1, n - 1, acc * 8 + (bs[k] - 48))

\* The simple escapes of the unicode_escape codec: escape byte -> code point.
SimpleEscapes == {<<92, 92>>, <<39, 39>>, <<34, 34>>, <<97, 7>>, <<98, 8>>,
                  <<102, 12>>, <<110, 10>>, <<114, 13>>, <<116, 9>>, <<118, 11>>}

RECURSIVE UnicodeEscape(_, _, _)
\* bytes.decode("unicode_escape") from index k: [ok, out], out the code points.
\* ok = FALSE is the codec's UnicodeDecodeError.
UnicodeEscape(bs, k, out) ==
    IF k > Len(bs) THEN [ok |-> TRUE, out |-> out]
    ELSE IF bs[k] # 92 THEN UnicodeEscape(bs, k + 1, Append(out, bs[k]))
    ELSE IF k = Len(bs) THEN [ok |-> FALSE, out |-> out]
    ELSE LET c == bs[k + 1]
         IN  IF c = 10 THEN UnicodeEscape(bs, k + 2, out)
             ELSE IF \E e \in SimpleEscapes : e[1] = c
                  THEN UnicodeEscape(bs, k + 2,
                           Append(out, (CHOOSE e \in SimpleEscapes : e[1] = c)[2]))
             ELSE IF IsOct(c)
                  THEN UnicodeEscape(bs, k + 1 + OctLen(bs, k + 1),
                           Append(out, OctRun(bs, k + 1, OctLen(bs, k + 1), 0)))
             ELSE IF c = 120
                  THEN IF HexRun(bs, k + 2, 2, 0) < 0
                       THEN [ok |-> FALSE, out |-> out]
                       ELSE UnicodeEscape(bs, k + 4,
                                Append(out, HexRun(bs, k + 2, 2, 0)))
             ELSE IF c = 117
                  THEN IF HexRun(bs, k + 2, 4, 0) < 0
                       THEN [ok |-> FALSE, out |-> out]
                       ELSE UnicodeEscape(bs, k + 6,
                                Append(out, HexRun(bs, k + 2, 4, 0)))
             ELSE IF c = 85
                  THEN IF HexRun(bs, k + 2, 8, 0) < 0 \/ HexRun(bs, k + 2, 8, 0) > 1114111
                       THEN [ok |-> FALSE, out |-> out]
                       ELSE UnicodeEscape(bs, k + 10,
                                Append(out, HexRun(bs, k + 2, 8, 0)))
             ELSE IF c = 78 THEN [ok |-> FALSE, out |-> out]
             ELSE UnicodeEscape(bs, k + 2, Append(Append(out, 92), c))

\* bytes(text[1:-1], "utf-8").decode("unicode_escape")
DecodeString(text) ==
    LET r == UnicodeEscape(Bytes(Slice(text, 1, Len(text) - 1)), 1, <<>>)
    IN  [ok |-> r.ok, value |-> StrV([k \in 1..Len(r.out) |-> Chr(r.out[k])])]

RECURSIVE DigitsValue(_, _)
\* The number a run of decimal digits writes.
DigitsValue(ds, acc) ==
    IF ds = <<>> THEN acc
    ELSE DigitsValue(Tail(ds), acc * 10 + (Ord(Head(ds)) - 48))

RECURSIVE StripZeros(_)
\* A fraction's digits without its trailing zeros.
StripZeros(ds) ==
    IF ds # <<>> /\ ds[Len(ds)] = "0" THEN StripZeros(SubSeq(ds, 1, Len(ds) - 1))
    ELSE ds

\* Mutant: every number is an integer, its fraction cut off.
NumberValue_AlwaysInt(text) ==
    LET neg  == Head(text) = "-"
        body == IF neg THEN Tail(text) ELSE text
        sgn  == IF neg THEN -1 ELSE 1
        whole == IF "." \in Range(body)
                 THEN SubSeq(body, 1, IndexOf(body, ".") - 1) ELSE body
    IN  IntV(sgn * DigitsValue(whole, 0))

\* float(text) if "." in text else int(text)
NumberValue(text) ==
    LET neg  == Head(text) = "-"
        body == IF neg THEN Tail(text) ELSE text
        sgn  == IF neg THEN -1 ELSE 1
    IN  IF "." \in Range(text)
        THEN LET dot  == IndexOf(body, ".")
                 frac == StripZeros(SubSeq(body, dot + 1, Len(body)))
             IN  FloatV(sgn * DigitsValue(SubSeq(body, 1, dot - 1) \o frac, 0),
                        Len(frac))
        ELSE IntV(sgn * DigitsValue(body, 0))

\* Token(kind, value, line, col)
Token(kind, value, line, col) ==
    [type |-> kind, value |-> value, line |-> line, col |-> col]

(***************************************************************************)
(* BrikTokenizer.tokenize                                                  *)
(***************************************************************************)
\* The loop's locals before the first match.
LexStart == [pos |-> 0, line |-> 1, line_start |-> 0, tokens |-> <<>>,
             failed |-> FALSE, err |-> [kind |-> "", line |-> 0, col |-> 0, ch |-> ""]]

\* The exception tokenize raises: the SyntaxError of line 71 names the line, the
\* column and the character; the codec's UnicodeDecodeError carries no position.
LexError(st, kind, line, col, ch) ==
    [st EXCEPT !.failed = TRUE,
               !.err = [kind |-> kind, line |-> line, col |-> col, ch |-> ch]]

\* Mutant: a newline starts the column count again but the line is not counted.
LexStep_LineNotCounted(src, st) ==
    LET mo   == Match(src, st.pos)
        text == Slice(src, st.pos, mo.end)
        col  == st.pos - st.line_start + 1
        nxt  == [st EXCEPT !.pos = mo.end]
        emit(v) == [nxt EXCEPT !.tokens = Append(st.tokens, Token(mo.kind, v, st.line, col))]
    IN  IF mo.kind = "NEWLINE"
        THEN [nxt EXCEPT !.line_start = mo.end]
        ELSE IF mo.kind \in {"SKIP", "COMMENT"} THEN nxt
        ELSE IF mo.kind = "STRING"
             THEN IF DecodeString(text).ok
                  THEN emit(DecodeString(text).value)
                  ELSE LexError(st, "UnicodeDecodeError", 0, 0, "")
        ELSE IF mo.kind = "NUMBER" THEN emit(NumberValue(text))
        ELSE IF mo.kind = "MISMATCH"
             THEN LexError(st, "SyntaxError", st.line, col, text[1])
        ELSE emit(StrV(text))

\* One iteration of "for mo in self._MASTER.finditer(self.source)".
LexStep(src, st) ==
    LET mo   == Match(src, st.pos)
        text == Slice(src, st.pos, mo.end)
        col  == st.pos - st.line_start + 1
        nxt  == [st EXCEPT !.pos = mo.end]
        emit(v) == [nxt EXCEPT !.tokens = Append(st.tokens, Token(mo.kind, v, st.line, col))]
    IN  IF mo.kind = "NEWLINE"
        THEN [nxt EXCEPT !.line = st.line + 1, !.line_start = mo.end]
        ELSE IF mo.kind \in {"SKIP", "COMMENT"} THEN nxt
        ELSE IF mo.kind = "STRING"
             THEN IF DecodeString(text).ok
                  THEN emit(DecodeString(text).value)
                  ELSE LexError(st, "UnicodeDecodeError", 0, 0, "")
        ELSE IF mo.kind = "NUMBER" THEN emit(NumberValue(text))
        ELSE IF mo.kind = "MISMATCH"
             THEN LexError(st, "SyntaxError", st.line, col, text[1])
        ELSE emit(StrV(text))

RECURSIVE LexRun(_, _)
\* The loop to its end: the locals when tokenize returns or raises.
LexRun(src, st) ==
    IF st.failed \/ st.pos >= Len(src) THEN st ELSE LexRun(src, LexStep(src, st))

\* tokenize(): the final locals; "return tokens" unless failed.
Tokenize(src) == LexRun(src, LexStart)

(***************************************************************************)
(* BrikParser: the cursor i over tokens, the symbol table, and the call    *)
(* stack of the recursive descent.  A frame is one active call of          *)
(* _parse_assignment ("assign"), _parse_list ("list") or _parse_dict       *)
(* ("dict") with its locals: key_tok, and items (list) or data (dict).     *)
(* pc is the place the innermost call stands at:                           *)
(*   ExpectStatement   the loop head of parse                              *)
(*   ExpectAssignOp    before _eat(["ASSIGN_COLON"])                       *)
(*   ExpectExprStart   entering _parse_expr                                *)
(*   InList            after an element of a list                          *)
(*   InRecordKey       the loop head of _parse_dict                        *)
(*   InRecordValue     after a field's value in _parse_dict                *)
(***************************************************************************)
NoToken == Token("", StrV(<<>>), 0, 0)

NoError == [msg |-> "", line |-> 0, col |-> 0]

Frame(kind, key_tok, items) == [kind |-> kind, key_tok |-> key_tok, items |-> items]

\* self.i < len(self.tokens)
HasTok == i < Len(tokens)

\* _peek(): the token under the cursor, NoToken for None
Peek == IF HasTok THEN tokens[i + 1] ELSE NoToken

Top == stack[Len(stack)]

Pop(stk) == SubSeq(stk, 1, Len(stk) - 1)

\* The position _eat reports at the end of the tokens.
EofPos ==
    IF i > 0 THEN [line |-> tokens[i].line, col |-> tokens[i].col]
    ELSE [line |-> 1, col |-> 1]

\* _eat(expected_types) without the advance: the error it raises, NoError if none.
EatError(expected) ==
    IF ~HasTok
    THEN [msg |-> "Fin de archivo inesperado", line |-> EofPos.line, col |-> EofPos.col]
    ELSE IF expected # {} /\ Peek.type \notin expected
         THEN [msg |-> "Se esperaba", line |-> Peek.line, col |-> Peek.col]
    ELSE NoError

\* Mutant: the error is recorded and the table built so far is returned.
Raise_ReturningPartial(e) ==
    /\ pc' = "failed"
    /\ perr' = e
    /\ result' = <<symbols>>
    /\ UNCHANGED <<source, tokens, lexerr, i, symbols, stack>>

\* raise ParseError(msg, line, col): the call of parse ends, nothing is returned.
Raise(e) ==
    /\ pc' = "failed"
    /\ perr' = e
    /\ UNCHANGED <<source, tokens, lexerr, i, symbols, stack, result>>

\* The position _parse_expr reports at the end of the tokens.
ExprEofPos == [line |-> 1, col |-> 1]

\* Mutant: the table is never consulted.
ResolveIdent_NeverBound(syms, name) == RefV(name)

\* Mutant: an unbound name evaluates to its bare text, not to a placeholder.
ResolveIdent_BareName(syms, name) ==
    IF DictHas(syms, name) THEN DictGet(syms, name) ELSE StrV(name)

\* Mutant: a name the table does not bind is looked up among the fields of
\* the dictionary being built.
ResolveIdent_SeesOpenRecord(syms, name) ==
    IF DictHas(syms, name) THEN DictGet(syms, name)
    ELSE IF stack # <<>> /\ Top.kind = "dict" /\ DictHas(Top.items, name)
         THEN DictGet(Top.items, name)
    ELSE RefV(name)

\* "if name in self.symbols: return self.symbols[name]; return {'ref': name}"
ResolveIdent(syms, name) ==
    IF DictHas(syms, name) THEN DictGet(syms, name) ELSE RefV(name)

RECURSIVE Resolved(_, _, _)
\* The value with every placeholder for name replaced by w.
Resolved(v, name, w) ==
    IF v = RefV(name) THEN w
    ELSE [v EXCEPT !.items = [n \in 1..Len(v.items) |->
                     Entry(v.items[n].key, Resolved(v.items[n].val, name, w))]]

\* Mutant: an assignment also resolves the placeholders stored for its name.
Return_Resolving(stk, syms, v) ==
    LET f == stk[Len(stk)]
        name == f.key_tok.value.str
    IN  IF f.kind = "assign"
        THEN [stack |-> Pop(stk), pc |-> "ExpectStatement",
              symbols |-> DictSet([n \in 1..Len(syms) |->
                              Entry(syms[n].key, Resolved(syms[n].val, name, v))],
                              name, v)]
        ELSE IF f.kind = "list"
        THEN [stack |-> [stk EXCEPT ![Len(stk)].items = Append(f.items, Entry(<<>>, v))],
              pc |-> "InList", symbols |-> syms]
        ELSE [stack |-> [stk EXCEPT ![Len(stk)].items = DictSet(f.items, name, v)],
              pc |-> "InRecordValue", symbols |-> syms]

\* Mutant: a field of a dictionary is also written to the symbol table.
Return_FieldsToTable(stk, syms, v) ==
    LET f == stk[Len(stk)]
    IN  IF f.kind = "assign"
        THEN [stack |-> Pop(stk), pc |-> "ExpectStatement",
              symbols |-> DictSet(syms, f.key_tok.value.str, v)]
        ELSE IF f.kind = "list"
        THEN [stack |-> [stk EXCEPT ![Len(stk)].items = Append(f.items, Entry(<<>>, v))],
              pc |-> "InList", symbols |-> syms]
        ELSE [stack |-> [stk EXCEPT ![Len(stk)].items =
                             DictSet(f.items, f.key_tok.value.str, v)],
              pc |-> "InRecordValue",
              symbols |-> DictSet(syms, f.key_tok.value.str, v)]

\* Mutant: a list gathers its elements in reverse.
Return_Prepending(stk, syms, v) ==
    LET f == stk[Len(stk)]
    IN  IF f.kind = "assign"
        THEN [stack |-> Pop(stk), pc |-> "ExpectStatement",
              symbols |-> DictSet(syms, f.key_tok.value.str, v)]
        ELSE IF f.kind = "list"
        THEN [stack |-> [stk EXCEPT ![Len(stk)].items = <<Entry(<<>>, v)>> \o f.items],
              pc |-> "InList", symbols |-> syms]
        ELSE [stack |-> [stk EXCEPT ![Len(stk)].items =
                             DictSet(f.items, f.key_tok.value.str, v)],
              pc |-> "InRecordValue", symbols |-> syms]

\* _parse_expr returns value v to the call below: the frames stk, the table syms.
\*   assign: table[key_tok.value] = value, back in parse's loop
\*   list:   items.append(value)
\*   dict:   data[key_tok.value] = value
Return(stk, syms, v) ==
    LET f == stk[Len(stk)]
    IN  IF f.kind = "assign"
        THEN [stack |-> Pop(stk), pc |-> "ExpectStatement",
              symbols |-> DictSet(syms, f.key_tok.value.str, v)]
        ELSE IF f.kind = "list"
        THEN [stack |-> [stk EXCEPT ![Len(stk)].items = Append(f.items, Entry(<<>>, v))],
              pc |-> "InList", symbols |-> syms]
        ELSE [stack |-> [stk EXCEPT ![Len(stk)].items =
                             DictSet(f.items, f.key_tok.value.str, v)],
              pc |-> "InRecordValue", symbols |-> syms]

\* Consume n tokens and return v to the caller.
ReturnValue(n, stk, v) ==
    LET r == Return(stk, symbols, v)
    IN  /\ i' = i + n
        /\ stack' = r.stack
        /\ pc' = r.pc
        /\ symbols' = r.symbols
        /\ UNCHANGED <<source, tokens, lexerr, perr, result>>

\* Consume n tokens and go on at place p with the frames stk.
Advance(n, p, stk) ==
    /\ i' = i + n
    /\ pc' = p
    /\ stack' = stk
    /\ UNCHANGED <<source, tokens, lexerr, symbols, perr, result>>

\* tokens = tokenizer.tokenize(); parser = BrikParser(tokens)
TokenizeCall ==
    /\ pc = "tokenize"
    /\ LET st == Tokenize(source)
       IN  IF st.failed
           THEN /\ pc' = "lexfail"
                /\ lexerr' = st.err
                /\ UNCHANGED tokens
           ELSE /\ pc' = "ExpectStatement"
                /\ tokens' = st.tokens
                /\ UNCHANGED lexerr
    /\ UNCHANGED <<source, i, symbols, stack, perr, result>>

\* parse: "while self._peek() is not None" is over, "return self.symbols"
ParseReturn ==
    /\ pc = "ExpectStatement"
    /\ ~HasTok
    /\ pc' = "done"
    /\ result' = <<symbols>>
    /\ UNCHANGED <<source, tokens, lexerr, i, symbols, stack, perr>>

\* parse: a stray comma between statements
StatementComma ==
    /\ pc = "ExpectStatement"
    /\ Peek.type = "COMMA"
    /\ Advance(1, "ExpectStatement", stack)

\* parse: _parse_assignment(self.symbols), key_tok = self._eat(["IDENT"])
StatementAssignment ==
    /\ pc = "ExpectStatement"
    /\ Peek.type = "IDENT"
    /\ Advance(1, "ExpectAssignOp", Append(stack, Frame("assign", Peek, <<>>)))

\* Mutant: the error of a statement's first token is placed at the start of
\* the text.
StatementError_FixedPosition ==
    /\ pc = "ExpectStatement"
    /\ HasTok
    /\ Peek.type \notin {"COMMA", "IDENT"}
    /\ Raise([msg |-> "Se esperaba un identificador al inicio de sentencia",
              line |-> 1, col |-> 1])

\* parse: any other token at the start of a statement
StatementError ==
    /\ pc = "ExpectStatement"
    /\ HasTok
    /\ Peek.type \notin {"COMMA", "IDENT"}
    /\ Raise([msg |-> "Se esperaba un identificador al inicio de sentencia",
              line |-> Peek.line, col |-> Peek.col])

\* _parse_assignment, _parse_dict: self._eat(["ASSIGN_COLON"])
AssignOp ==
    /\ pc = "ExpectAssignOp"
    /\ IF EatError({"ASSIGN_COLON"}) = NoError
       THEN Advance(1, "ExpectExprStart", stack)
       ELSE Raise(EatError({"ASSIGN_COLON"}))

\* _parse_expr: tok is None
ExprEof ==
    /\ pc = "ExpectExprStart"
    /\ ~HasTok
    /\ Raise([msg |-> "Se esperaba una expresion",
              line |-> ExprEofPos.line, col |-> ExprEofPos.col])

\* _parse_expr: STRING or NUMBER, "return self._eat().value"
ExprScalar ==
    /\ pc = "ExpectExprStart"
    /\ Peek.type \in {"STRING", "NUMBER"}
    /\ ReturnValue(1, stack, Peek.value)

\* _parse_expr: IDENT, resolved against the symbol table as it stands
ExprIdent ==
    /\ pc = "ExpectExprStart"
    /\ Peek.type = "IDENT"
    /\ ReturnValue(1, stack, ResolveIdent(symbols, Peek.value.str))

\* _parse_expr: LLIST, _parse_list up to its first element
ExprList ==
    /\ pc = "ExpectExprStart"
    /\ Peek.type = "LLIST"
    /\ IF i + 1 < Len(tokens) /\ tokens[i + 2].type = "RLIST"
       THEN ReturnValue(2, stack, ListV(<<>>))
       ELSE Advance(1, "ExpectExprStart", Append(stack, Frame("list", NoToken, <<>>)))

\* _parse_expr: LDICT, _parse_dict up to its loop
ExprDict ==
    /\ pc = "ExpectExprStart"
    /\ Peek.type = "LDICT"
    /\ IF i + 1 < Len(tokens) /\ tokens[i + 2].type = "RDICT"
       THEN ReturnValue(2, stack, DictV(<<>>))
       ELSE Advance(1, "InRecordKey", Append(stack, Frame("dict", NoToken, <<>>)))

\* _parse_expr: no expression starts with this token
ExprError ==
    /\ pc = "ExpectExprStart"
    /\ HasTok
    /\ Peek.type \notin {"STRING", "NUMBER", "IDENT", "LLIST", "LDICT"}
    /\ Raise([msg |-> "Expresion inesperada", line |-> Peek.line, col |-> Peek.col])

\* _parse_list: "if self._match('COMMA'): continue"
ListComma ==
    /\ pc = "InList"
    /\ Peek.type = "COMMA"
    /\ Advance(1, "ExpectExprStart", stack)

\* _parse_list: self._eat(["RLIST"]); break; return items
ListClose ==
    /\ pc = "InList"
    /\ Peek.type # "COMMA"
    /\ IF EatError({"RLIST"}) = NoError
       THEN ReturnValue(1, Pop(stack), ListV(Top.items))
       ELSE Raise(EatError({"RLIST"}))

\* Mutant: the comma at the loop head is seen but not consumed.
DictSkipComma_NotConsuming ==
    /\ pc = "InRecordKey"
    /\ Peek.type = "COMMA"
    /\ Advance(0, "InRecordKey", stack)

\* _parse_dict, loop head: "if self._match('COMMA'): continue"
DictSkipComma ==
    /\ pc = "InRecordKey"
    /\ Peek.type = "COMMA"
    /\ Advance(1, "InRecordKey", stack)

\* Mutant: the closing bracket is accepted at the loop head.
DictKey_ClosingAccepted ==
    /\ pc = "InRecordKey"
    /\ Peek.type # "COMMA"
    /\ IF Peek.type = "RDICT"
       THEN ReturnValue(1, Pop(stack), DictV(Top.items))
       ELSE IF EatError({"IDENT"}) = NoError
       THEN Advance(1, "ExpectAssignOp", [stack EXCEPT ![Len(stack)].key_tok = Peek])
       ELSE Raise(EatError({"IDENT"}))

\* _parse_dict: key_tok = self._eat(["IDENT"])
DictKey ==
    /\ pc = "InRecordKey"
    /\ Peek.type # "COMMA"
    /\ IF EatError({"IDENT"}) = NoError
       THEN Advance(1, "ExpectAssignOp", [stack EXCEPT ![Len(stack)].key_tok = Peek])
       ELSE Raise(EatError({"IDENT"}))

\* _parse_dict, after a field: "if self._match('COMMA'): continue"
DictComma ==
    /\ pc = "InRecordValue"
    /\ Peek.type = "COMMA"
    /\ Advance(1, "InRecordKey", stack)

\* _parse_dict, after a field: nxt is None
DictEof ==
    /\ pc = "InRecordValue"
    /\ ~HasTok
    /\ Raise([msg |-> "Falta cerrar el diccionario con '?'",
              line |-> Top.key_tok.line, col |-> Top.key_tok.col])

\* _parse_dict, after a field: self._eat(["RDICT"]); break; return data
DictClose ==
    /\ pc = "InRecordValue"
    /\ Peek.type = "RDICT"
    /\ ReturnValue(1, Pop(stack), DictV(Top.items))

\* _parse_dict, after a field: any other token, the loop goes round
DictNext ==
    /\ pc = "InRecordValue"
    /\ HasTok
    /\ Peek.type \notin {"COMMA", "RDICT"}
    /\ Advance(0, "InRecordKey", stack)

(***************************************************************************)
(* The inputs.  Four families of source texts:                             *)
(*   - every text of at most MaxSrcLen characters over LexChars;           *)
(*   - an opening (nothing, an open list, an open dictionary, a dictionary *)
(*     after its first field) followed by every sequence of at most        *)
(*     MaxBody lexemes over BodyLexemes;                                   *)
(*   - every program of at most MaxStmts assignments over StmtForms;       *)
(*   - every text of at most MaxNumLen characters over NumberChars;        *)
(* and the example programs of the specification.                          *)
(***************************************************************************)
MaxSrcLen == 4

MaxBody == 4

MaxStmts == 3

MaxNumLen == 4

Seqs(S, n) == UNION {[1..k -> S] : k \in 0..n}

RECURSIVE Render(_, _)
\* The lexemes from the k-th on, one blank between two of them, a newline
\* instead after every third.
Render(lexs, k) ==
    IF k > Len(lexs) THEN <<>>
    ELSE IF k = Len(lexs) THEN lexs[k]
    ELSE lexs[k] \o (IF k % 3 = 0 THEN <<"\n">> ELSE <<" ">>) \o Render(lexs, k + 1)

LexChars == {"a", "1", "\"", "\\", "\n", " ", "@", "x"}

NumberChars == {"-", ".", "0", "1", "a", " "}

LxAssign == <<":", "=">>

BodyLexemes == {<<"a">>, LxAssign, <<"1">>, <<",">>, <<"!">>, <<"?">>}

Openings == {<<>>,
             <<<<"a">>, LxAssign, <<"iexcl">>>>,
             <<<<"a">>, LxAssign, <<"iquest">>>>,
             <<<<"a">>, LxAssign, <<"iquest">>, <<"a">>, LxAssign, <<"1">>>>}

StmtNames == {<<"a">>, <<"b">>}

StmtExprs == {<<<<"1">>>>, <<<<"a">>>>, <<<<"b">>>>,
              <<<<"iexcl">>, <<"a">>, <<"!">>>>,
              <<<<"iquest">>, <<"a">>, LxAssign, <<"b">>, <<"?">>>>}

StmtForms == {<<n, LxAssign>> \o e : n \in StmtNames, e \in StmtExprs}

RECURSIVE Flatten(_)
Flatten(ss) == IF ss = <<>> THEN <<>> ELSE Head(ss) \o Flatten(Tail(ss))

\* The programs the specification and the grammar's comments give as examples.
ExamplePrograms ==
    LET a == <<"a">>  b == <<"b">>  x == <<"x">>  y == <<"y">>  c == <<",">>
        one == <<"1">>  two == <<"2">>  three == <<"3">>
        ll == <<"iexcl">>  rl == <<"!">>  ld == <<"iquest">>  rd == <<"?">>
        be == LxAssign
    IN  { <<a, be, one, c, b, be, a, c, a, be, two>>,
          <<x, be, y>>,
          <<x, be, y, c, y, be, one>>,
          <<<<"p", "t">>, be, ld, x, be, one, c, y, be, ll, one, c, two, c, three, rl, rd>>,
          <<<<"e">>, be, ll, rl>>,
          <<<<"d">>, be, ld, rd>>,
          <<a, be, ld, x, be, one, c, rd>>,
          <<a, be, ld, x, be, one, y, be, two, rd>>,
          <<a, be, ld, x, be, one, c, y, be, x, rd>>,
          <<a, be, ld, x, be>>,
          <<a, be, one, c, a, be, ld, x, be, one, c, x, be, two, rd>>,
          <<a, be, <<"\"", "s", "\"">>, c, b, be, <<"-", "1", ".", "5">>>> }

ExampleTexts ==
    { <<"\n", "\n", " ", " ", " ", " ", "\"", "a", "b", "c">>,
      <<"#", " ", "c", "\n", "a", " ", ":", "=", " ", "1">>,
      <<"\"", "\n", "\"", " ", "a", "\n", "1">> }

Sources ==
    Seqs(LexChars, MaxSrcLen)
    \cup {Render(o \o bdy, 1) : o \in Openings, bdy \in Seqs(BodyLexemes, MaxBody)}
    \cup {Render(Flatten(p), 1) : p \in Seqs(StmtForms, MaxStmts)}
    \cup Seqs(NumberChars, MaxNumLen)
    \cup {Render(p, 1) : p \in ExamplePrograms}
    \cup ExampleTexts

NoLexError == [kind |-> "", line |-> 0, col |-> 0, ch |-> ""]

\* The driver before tokenizer.tokenize(): BrikParser.__init__ sets i = 0 and
\* symbols = {}.
Init ==
    /\ source \in Sources
    /\ pc = "tokenize"
    /\ tokens = <<>>
    /\ lexerr = NoLexError
    /\ i = 0
    /\ symbols = <<>>
    /\ stack = <<>>
    /\ perr = NoError
    /\ result = <<>>

Next ==
    \/ TokenizeCall
    \/ ParseReturn
    \/ StatementComma
    \/ StatementAssignment
    \/ StatementError
    \/ AssignOp
    \/ ExprEof
    \/ ExprScalar
    \/ ExprIdent
    \/ ExprList
    \/ ExprDict
    \/ ExprError
    \/ ListComma
    \/ ListClose
    \/ DictSkipComma
    \/ DictKey
    \/ DictComma
    \/ DictEof
    \/ DictClose
    \/ DictNext

Spec == Init /\ [][Next]_vars

\* A step of parse().
ParseStep ==
    \/ ParseReturn
    \/ StatementComma
    \/ StatementAssignment
    \/ StatementError
    \/ AssignOp
    \/ ExprEof
    \/ ExprScalar
    \/ ExprIdent
    \/ ExprList
    \/ ExprDict
    \/ ExprError
    \/ ListComma
    \/ ListClose
    \/ DictSkipComma
    \/ DictKey
    \/ DictComma
    \/ DictEof
    \/ DictClose
    \/ DictNext

\* parse() runs in one thread of control, with no cancellation and nothing
\* to wait for: a step of parse that can be taken is taken.
FairSpec == Spec /\ WF_vars(ParseStep)

(***************************************************************************)
(* Properties.                                                             *)
(***************************************************************************)
\* The source text of a program given as its lexemes.
Program(lexs) == Render(lexs, 1)

\* The name an IDENT lexeme writes is the lexeme itself.
NameA == <<"a">>

NameB == <<"b">>

NameX == <<"x">>

NameY == <<"y">>

\* The value _parse_expr handed to its caller in the step just taken: the
\* caller's frame is the top of the stack before the step.
Delivered ==
    LET f == Top
        n == Len(stack)
    IN  IF f.kind = "assign" THEN DictGet(symbols', f.key_tok.value.str)
        ELSE IF f.kind = "list" THEN stack'[n].items[Len(stack'[n].items)].val
        ELSE DictGet(stack'[n].items, f.key_tok.value.str)

\* The step evaluates an identifier used as an expression.
IdentUse == pc = "ExpectExprStart" /\ Peek.type = "IDENT"

\* The step completes the top-level assignment to name.
Binds(name) ==
    /\ pc \in {"ExpectExprStart", "InList", "InRecordValue"}
    /\ pc' = "ExpectStatement"
    /\ stack[1].key_tok.value.str = name

\* Every binding of the table other than the one the step completes is kept.
OtherBindingsKept ==
    \A n \in 1..Len(symbols) :
        \/ Binds(symbols[n].key)
        \/ /\ DictHas(symbols', symbols[n].key)
           /\ DictGet(symbols', symbols[n].key) = symbols[n].val

ProgramCapture ==
    Program(<<NameA, LxAssign, <<"1">>, <<",">>, NameB, LxAssign, NameA, <<",">>,
              NameA, LxAssign, <<"2">>>>)

\* C1 (value capture at time of use): an identifier used as an expression
\* whose name is bound evaluates to the value bound at that moment; no later
\* step changes a binding other than the one it assigns, so a rebinding of
\* the name never changes the captured value; and a := 1, b := a, a := 2
\* ends with b = 1 and a = 2.
C1_ValueCapture ==
    [][/\ (IdentUse /\ DictHas(symbols, Peek.value.str))
            => Delivered = DictGet(symbols, Peek.value.str)
       /\ OtherBindingsKept
       /\ (source = ProgramCapture /\ pc' = "done")
            => /\ DictGet(symbols', NameB) = IntV(1)
               /\ DictGet(symbols', NameA) = IntV(2)]_vars

\* C1 witness: a := 1, b := a, a := 2 has been parsed: b was captured from a
\* and a was rebound afterwards.
C1_Witness ==
    /\ pc = "done"
    /\ source = ProgramCapture
    /\ symbols = <<Entry(NameA, IntV(2)), Entry(NameB, IntV(1))>>

ProgramUnresolved == Program(<<NameX, LxAssign, NameY>>)

\* C2 (unresolved reference): an identifier used as an expression whose name
\* is not bound raises no error and evaluates to the placeholder {"ref": name};
\* x := y with y never defined returns the table x = {"ref": "y"}.
C2_UnresolvedReference ==
    [][/\ (IdentUse /\ ~DictHas(symbols, Peek.value.str))
            => /\ pc' # "failed"
               /\ i' = i + 1
               /\ Delivered = RefV(Peek.value.str)
       /\ (source = ProgramUnresolved /\ pc' = "done")
            => result' = <<<<Entry(NameX, RefV(NameY))>>>>]_vars

\* C2 witness: x := y has been parsed and returned with x a placeholder for y.
C2_Witness ==
    /\ pc = "done"
    /\ source = ProgramUnresolved
    /\ DictGet(symbols, NameX) = RefV(NameY)
    /\ ~DictHas(symbols, NameY)

\* The names the program writes.
IdentNames == {tokens[k].value.str : k \in {j \in 1..Len(tokens) : tokens[j].type = "IDENT"}}

RECURSIVE HoldsRef(_, _)
\* The value is, or holds in a list or dictionary, the placeholder for name.
HoldsRef(v, name) ==
    \/ v = RefV(name)
    \/ \E n \in 1..Len(v.items) : HoldsRef(v.items[n].val, name)

\* The values gathered so far by the open lists and dictionaries stay as they
\* are while their frame is on the stack.
FrameItemsKept ==
    \A n \in 1..Len(stack) :
        n <= Len(stack') =>
            \A m \in 1..Len(stack[n].items) :
                \/ /\ m <= Len(stack'[n].items)
                   /\ stack'[n].items[m] = stack[n].items[m]
                \/ /\ stack[n].kind = "dict"
                   /\ n = Len(stack)
                   /\ pc \in {"ExpectExprStart", "InList", "InRecordValue"}
                   /\ stack[n].key_tok.value.str = stack[n].items[m].key

ProgramLateBinding ==
    Program(<<NameX, LxAssign, NameY, <<",">>, NameY, LxAssign, <<"1">>>>)

\* C3 (no retroactive resolution): an identifier evaluates to a new
\* placeholder only when its name is absent from the table at that moment; a
\* stored value holding a placeholder for a name, in the table or in an open
\* list or dictionary, is left as it is by the step that binds that name; and
\* after x := y, y := 1 the table still has x = {"ref": "y"}.
C3_NoRetroactiveResolution ==
    [][/\ (IdentUse /\ Delivered = RefV(Peek.value.str))
            => \/ ~DictHas(symbols, Peek.value.str)
               \/ DictGet(symbols, Peek.value.str) = RefV(Peek.value.str)
       /\ \A n \in 1..Len(symbols) : \A name \in IdentNames :
            (HoldsRef(symbols[n].val, name) /\ Binds(name) /\ symbols[n].key # name)
                => DictGet(symbols', symbols[n].key) = symbols[n].val
       /\ FrameItemsKept
       /\ (source = ProgramLateBinding /\ pc' = "done")
            => symbols' = <<Entry(NameX, RefV(NameY)), Entry(NameY, IntV(1))>>]_vars

\* C3 witness: x := y, y := 1 has been parsed; y is bound and x still holds
\* the placeholder for y.
C3_Witness ==
    /\ pc = "done"
    /\ source = ProgramLateBinding
    /\ DictGet(symbols, NameY) = IntV(1)
    /\ DictGet(symbols, NameX) = RefV(NameY)

(***************************************************************************)
(* The grammar of the specification, section 4.2, as a recogniser and      *)
(* evaluator over a token sequence ts:                                     *)
(*   program    ::= { statement }                                          *)
(*   statement  ::= COMMA | IDENT ASSIGN expr                              *)
(*   expr       ::= STRING | NUMBER | IDENT | list | record                *)
(*   list       ::= LIST_OPEN [ expr { COMMA expr } ] LIST_CLOSE           *)
(*   record     ::= DICT_OPEN [ field { COMMA field } ] DICT_CLOSE         *)
(*   field      ::= IDENT ASSIGN expr                                      *)
(* An expression read from index k gives [ok, end, val]: whether one is    *)
(* there, the index after it, and the value the specification gives it in  *)
(* the environment env.                                                    *)
(***************************************************************************)
TypeAt(ts, k) == IF k >= 1 /\ k <= Len(ts) THEN ts[k].type ELSE ""

NoParse == [ok |-> FALSE, end |-> 0, val |-> StrV(<<>>)]

Parsed(e, v) == [ok |-> TRUE, end |-> e, val |-> v]

RECURSIVE GrammarExpr(_, _, _), GrammarItems(_, _, _, _), GrammarFields(_, _, _, _)
GrammarExpr(ts, k, env) ==
    LET t == TypeAt(ts, k)
    IN  IF t \in {"STRING", "NUMBER"} THEN Parsed(k + 1, ts[k].value)
        ELSE IF t = "IDENT"
             THEN Parsed(k + 1, IF DictHas(env, ts[k].value.str)
                                THEN DictGet(env, ts[k].value.str)
                                ELSE RefV(ts[k].value.str))
        ELSE IF t = "LLIST"
             THEN IF TypeAt(ts, k + 1) = "RLIST" THEN Parsed(k + 2, ListV(<<>>))
                  ELSE GrammarItems(ts, k + 1, env, <<>>)
        ELSE IF t = "LDICT"
             THEN IF TypeAt(ts, k + 1) = "RDICT" THEN Parsed(k + 2, DictV(<<>>))
                  ELSE GrammarFields(ts, k + 1, env, <<>>)
        ELSE NoParse

\* expr { COMMA expr } LIST_CLOSE from index k, after the elements acc
GrammarItems(ts, k, env, acc) ==
    LET e == GrammarExpr(ts, k, env)
    IN  IF ~e.ok THEN NoParse
        ELSE IF TypeAt(ts, e.end) = "COMMA"
             THEN GrammarItems(ts, e.end + 1, env, Append(acc, Entry(<<>>, e.val)))
        ELSE IF TypeAt(ts, e.end) = "RLIST"
             THEN Parsed(e.end + 1, ListV(Append(acc, Entry(<<>>, e.val))))
        ELSE NoParse

\* field { COMMA field } DICT_CLOSE from index k, after the fields acc
GrammarFields(ts, k, env, acc) ==
    IF TypeAt(ts, k) # "IDENT" \/ TypeAt(ts, k + 1) # "ASSIGN_COLON" THEN NoParse
    ELSE LET e == GrammarExpr(ts, k + 2, env)
         IN  IF ~e.ok THEN NoParse
             ELSE IF TypeAt(ts, e.end) = "COMMA"
                  THEN GrammarFields(ts, e.end + 1, env, DictSet(acc, ts[k].value.str, e.val))
             ELSE IF TypeAt(ts, e.end) = "RDICT"
                  THEN Parsed(e.end + 1, DictV(DictSet(acc, ts[k].value.str, e.val)))
             ELSE NoParse

RECURSIVE GrammarProgram(_, _, _)
\* { statement } from index k in the table env: [ok, env], the table at the end.
GrammarProgram(ts, k, env) ==
    IF k > Len(ts) THEN [ok |-> TRUE, env |-> env]
    ELSE IF TypeAt(ts, k) = "COMMA" THEN GrammarProgram(ts, k + 1, env)
    ELSE IF TypeAt(ts, k) = "IDENT" /\ TypeAt(ts, k + 1) = "ASSIGN_COLON"
              /\ GrammarExpr(ts, k + 2, env).ok
         THEN GrammarProgram(ts, GrammarExpr(ts, k + 2, env).end,
                  DictSet(env, ts[k].value.str, GrammarExpr(ts, k + 2, env).val))
    ELSE [ok |-> FALSE, env |-> env]

\* The token sequence is a sentence of the grammar.
Sentence(ts) == GrammarProgram(ts, 1, <<>>).ok

\* C4 (grammar conformance), as claimed: parse returns a symbol table only
\* for a sentence of the grammar, and raises a syntax error otherwise.
C4_GrammarConformance ==
    /\ pc = "done" => Sentence(tokens)
    /\ pc = "failed" => ~Sentence(tokens)

ProgramNested ==
    Program(<<<<"p", "t">>, LxAssign, <<"iquest">>, NameX, LxAssign, <<"1">>, <<",">>,
              NameY, LxAssign, <<"iexcl">>, <<"1">>, <<",">>, <<"2">>, <<",">>, <<"3">>,
              <<"!">>, <<"?">>>>)

ProgramEmptyList == Program(<<<<"e">>, LxAssign, <<"iexcl">>, <<"!">>>>)

ProgramEmptyDict == Program(<<<<"d">>, LxAssign, <<"iquest">>, <<"?">>>>)

NestedValue ==
    DictV(<<Entry(NameX, IntV(1)),
            Entry(NameY, ListV(<<Entry(<<>>, IntV(1)), Entry(<<>>, IntV(2)),
                                 Entry(<<>>, IntV(3))>>))>>)

\* C5 (composite construction): between statements, when the tokens consumed
\* so far are assignments of the grammar (comma-separated elements and
\* fields), the table holds for each name the value the grammar gives its
\* expression: a list of the element values in source order, a dictionary of
\* the fields, nested composites included; e := [] and d := {} give an empty
\* list and an empty dictionary, and the nested example its dictionary.
C5_CompositeConstruction ==
    /\ (pc \in {"ExpectStatement", "done"} /\ Sentence(SubSeq(tokens, 1, i)))
         => symbols = GrammarProgram(SubSeq(tokens, 1, i), 1, <<>>).env
    /\ (pc = "done" /\ source = ProgramEmptyList)
         => symbols = <<Entry(<<"e">>, ListV(<<>>))>>
    /\ (pc = "done" /\ source = ProgramEmptyDict)
         => symbols = <<Entry(<<"d">>, DictV(<<>>))>>
    /\ (pc = "done" /\ source = ProgramNested)
         => symbols = <<Entry(<<"p", "t">>, NestedValue)>>
    /\ source \in {ProgramEmptyList, ProgramEmptyDict, ProgramNested} => pc # "failed"

\* C5 witness: the nested example has been parsed to a dictionary holding a
\* number and a list of three numbers.
C5_Witness ==
    /\ pc = "done"
    /\ source = ProgramNested
    /\ DictGet(symbols, <<"p", "t">>) = NestedValue

\* A list or a dictionary is open.
CompositeOpen == \E n \in 1..Len(stack) : stack[n].kind \in {"list", "dict"}

\* C6 (end of input inside an open composite), as claimed: the syntax error
\* is placed at the token that last advanced the parser, or at the most
\* recent key token of the innermost open dictionary.
C6_EndOfInputPosition ==
    (pc = "failed" /\ ~HasTok /\ CompositeOpen)
        => \/ /\ perr.line = tokens[i].line
              /\ perr.col = tokens[i].col
           \/ /\ Top.kind = "dict"
              /\ Top.key_tok # NoToken
              /\ perr.line = Top.key_tok.line
              /\ perr.col = Top.key_tok.col

\* The cursor stands on a closing bracket that directly follows a comma, in a
\* dictionary with at least one field.
TrailingComma ==
    /\ stack # <<>>
    /\ Top.kind = "dict"
    /\ Top.items # <<>>
    /\ i > 0
    /\ tokens[i].type = "COMMA"
    /\ Peek.type = "RDICT"

\* C7 (record trailing comma), as claimed: a dictionary whose last field is
\* followed by a comma and the closing bracket is parsed, not rejected.
C7_TrailingCommaTolerated == TrailingComma => pc # "failed"

\* C7, amended: at the loop head of a dictionary a comma is skipped, but the
\* closing bracket is not accepted there: a comma directly followed by the
\* closing bracket is a syntax error placed at that bracket.
C7_TrailingCommaRejected ==
    [][/\ (pc = "InRecordKey" /\ Peek.type = "COMMA")
            => (pc' = "InRecordKey" /\ i' = i + 1 /\ stack' = stack)
       /\ (pc = "InRecordKey" /\ Peek.type = "RDICT")
            => /\ i > 0 /\ tokens[i].type = "COMMA"
               /\ pc' = "failed"
               /\ perr'.line = Peek.line
               /\ perr'.col = Peek.col
               /\ result' = <<>>]_vars

\* C7 witness: a dictionary with a field, a comma and the closing bracket was
\* rejected at the bracket.
C7_Witness ==
    /\ pc = "failed"
    /\ TrailingComma
    /\ perr.line = Peek.line
    /\ perr.col = Peek.col

(***************************************************************************)
(* Source positions, counted on the text itself.                           *)
(***************************************************************************)
\* 1 plus the number of newline characters before offset k
TrueLine(src, k) == 1 + Cardinality({j \in 0..(k - 1) : At(src, j) = "\n"})

\* 1 plus the number of characters between the last newline before offset k
\* (or the start of the text) and offset k
TrueCol(src, k) ==
    LET nls == {j \in 0..(k - 1) : At(src, j) = "\n"}
        last == IF nls = {} THEN -1 ELSE CHOOSE j \in nls : \A m \in nls : m <= j
    IN  k - last

RECURSIVE Scan(_, _, _)
\* The matches of the pattern table from offset p on, in scan order, up to and
\* with the first character that matches no token category.
Scan(src, p, acc) ==
    IF p >= Len(src) THEN acc
    ELSE LET mo == Match(src, p)
             one == [kind |-> mo.kind, start |-> p]
         IN  IF mo.kind = "MISMATCH" THEN Append(acc, one)
             ELSE Scan(src, mo.end, Append(acc, one))

\* The offset of the first character, in scan order, that matches no token
\* category; -1 when there is none.
FirstInvalid(src) ==
    LET ms == Scan(src, 0, <<>>)
    IN  IF ms # <<>> /\ ms[Len(ms)].kind = "MISMATCH" THEN ms[Len(ms)].start ELSE -1

\* The offsets at which the tokens of the text start, in order.
TokenStarts(src) ==
    LET ms == Scan(src, 0, <<>>)
        RECURSIVE Keep(_)
        Keep(k) ==
            IF k > Len(ms) THEN <<>>
            ELSE IF ms[k].kind \in {"NEWLINE", "SKIP", "COMMENT", "MISMATCH"} THEN Keep(k + 1)
            ELSE <<ms[k].start>> \o Keep(k + 1)
    IN  Keep(1)

\* tokenize has just returned or raised.
Tokenized == pc = "lexfail" \/ (pc = "ExpectStatement" /\ i = 0)

\* C8 (lexer failure on an invalid character), as claimed: tokenize fails at
\* the first character that matches no token category, reporting its 1-based
\* line and column and the character, and returns no tokens; when there is no
\* such character it returns normally.
C8_InvalidCharacter ==
    Tokenized =>
        LET k == FirstInvalid(source)
        IN  IF k >= 0
            THEN /\ pc = "lexfail"
                 /\ lexerr = [kind |-> "SyntaxError", line |-> TrueLine(source, k),
                              col |-> TrueCol(source, k), ch |-> At(source, k)]
                 /\ tokens = <<>>
            ELSE pc # "lexfail"

\* C9 (unterminated string), as claimed: when the scan comes to an opening
\* quote that no closing quote follows, tokenize fails with an error placed
\* at the line and column of that opening quote.
C9_UnterminatedString ==
    (Tokenized /\ FirstInvalid(source) >= 0 /\ At(source, FirstInvalid(source)) = "\"")
        => /\ pc = "lexfail"
           /\ lexerr.line = TrueLine(source, FirstInvalid(source))
           /\ lexerr.col = TrueCol(source, FirstInvalid(source))

\* C10 (token positions are true source positions), as claimed: every token
\* tokenize returns carries the line and column of its first character.
C10_TokenPositions ==
    (pc = "ExpectStatement" /\ i = 0) =>
        LET starts == TokenStarts(source)
        IN  /\ Len(tokens) = Len(starts)
            /\ \A k \in 1..Len(tokens) :
                /\ tokens[k].line = TrueLine(source, starts[k])
                /\ tokens[k].col = TrueCol(source, starts[k])

(***************************************************************************)
(* String values, decoded from the literal's body as the language defines  *)
(* its escapes.                                                            *)
(***************************************************************************)
RECURSIVE EscapeDecoded(_)
\* The body with \n, \t, \" and \\ decoded, and any other character after a
\* backslash kept without the backslash.
EscapeDecoded(body) ==
    IF body = <<>> THEN <<>>
    ELSE IF Head(body) = "\\" /\ Len(body) >= 2
         THEN LET c == body[2]
                  d == IF c = "n" THEN "\n" ELSE IF c = "t" THEN "\t" ELSE c
              IN  <<d>> \o EscapeDecoded(SubSeq(body, 3, Len(body)))
    ELSE <<Head(body)>> \o EscapeDecoded(Tail(body))

\* The body of the string literal that starts at offset p.
StringBody(src, p) == Slice(src, p + 1, Match(src, p).end - 1)

\* C11 (string escape decoding), as claimed: no closed string literal makes
\* tokenize fail, and the value of every STRING token is its body with \n, \t,
\* \" and \\ decoded and every other escaped character kept without its
\* backslash.
C11_StringEscapeDecoding ==
    Tokenized =>
        /\ lexerr.kind # "UnicodeDecodeError"
        /\ pc = "ExpectStatement" =>
             LET starts == TokenStarts(source)
             IN  \A k \in 1..Len(tokens) :
                     tokens[k].type = "STRING" =>
                         tokens[k].value = StrV(EscapeDecoded(StringBody(source, starts[k])))

(***************************************************************************)
(* Layout between tokens.                                                  *)
(***************************************************************************)
\* The longest source text the insertions are tried on.
MaxLayoutLen == 10

\* The kinds and values of a token sequence, positions left out.
KindsValues(ts) == [k \in 1..Len(ts) |-> <<ts[k].type, ts[k].value>>]

\* What may be inserted: a space, a tab, a newline, a comment-only line (from
\* the end of the line in progress, or with the line break before it).
Layouts == {<<" ">>, <<"\t">>, <<"\n">>, <<"#", "c", "\n">>, <<"\n", "#", " ", "c", "\n">>}

\* The text with w inserted before offset p.
Inserted(src, p, w) == Slice(src, 0, p) \o w \o Slice(src, p, Len(src))

\* The offsets between two adjacent tokens where a match of the pattern table
\* starts: from the end of the first token to the start of the last.
GapOffsets(src) ==
    LET ms == Scan(src, 0, <<>>)
        T == {k \in 1..Len(ms) : ms[k].kind \notin {"NEWLINE", "SKIP", "COMMENT", "MISMATCH"}}
    IN  {ms[k].start : k \in {n \in 1..Len(ms) : \E a, b \in T : a < n /\ n <= b}}

\* The call of tokenize returns the tokens of the source.
TokenizeReturns == pc = "tokenize" /\ pc' = "ExpectStatement"

\* C12 (whitespace/comment insensitivity): when tokenize returns the tokens
\* of the source, it also returns, for the source with a space, a tab, a
\* newline or a comment-only line inserted between two adjacent tokens, a
\* token sequence with the same kinds and values in the same order.
C12_LayoutInsensitivity ==
    [][(TokenizeReturns /\ Len(source) <= MaxLayoutLen) =>
          \A p \in GapOffsets(source), w \in Layouts :
              LET st == Tokenize(Inserted(source, p, w))
              IN  /\ ~st.failed
                  /\ KindsValues(st.tokens) = KindsValues(tokens')]_vars

\* An insertion between two tokens of a tokenized source has moved a token
\* to another line.
C12_Witness ==
    /\ pc = "ExpectStatement" /\ i = 0
    /\ Len(source) <= MaxLayoutLen
    /\ \E p \in GapOffsets(source), w \in Layouts :
           LET st == Tokenize(Inserted(source, p, w))
           IN  /\ ~st.failed
               /\ Len(st.tokens) = Len(tokens)
               /\ st.tokens[Len(tokens)].line = tokens[Len(tokens)].line + 2

(***************************************************************************)
(* Statements.                                                             *)
(***************************************************************************)
\* C13 (top-level statement start): at the head of parse's loop a COMMA is
\* skipped and leaves the symbol table as it is, an IDENT starts an
\* assignment with that token as its target, and any other token ends parse
\* with a syntax error at that token's line and column.
C13_StatementStart ==
    [][(pc = "ExpectStatement" /\ HasTok) =>
          /\ Peek.type = "COMMA" =>
                /\ pc' = "ExpectStatement"
                /\ i' = i + 1
                /\ symbols' = symbols
                /\ stack' = stack
          /\ Peek.type = "IDENT" =>
                /\ pc' = "ExpectAssignOp"
                /\ i' = i + 1
                /\ symbols' = symbols
                /\ stack' = Append(stack, Frame("assign", Peek, <<>>))
          /\ Peek.type \notin {"COMMA", "IDENT"} =>
                /\ pc' = "failed"
                /\ perr'.line = Peek.line
                /\ perr'.col = Peek.col
                /\ i' = i
                /\ result' = <<>>]_vars

\* parse has failed at the first token of a statement, after an assignment
\* and a skipped comma.
C13_Witness ==
    /\ pc = "failed"
    /\ stack = <<>>
    /\ symbols # <<>>
    /\ i > 0 /\ tokens[i].type = "COMMA"
    /\ Peek.type \notin {"COMMA", "IDENT"}
    /\ perr.line = Peek.line
    /\ perr.col = Peek.col
    /\ <<perr.line, perr.col>> # <<1, 1>>

\* The value the step just taken hands to the waiting assignment, list or
\* dictionary: a scalar's value, an identifier's resolution, an empty or a
\* just closed list or dictionary.
HandedValue ==
    IF pc = "InList" THEN ListV(Top.items)
    ELSE IF pc = "InRecordValue" THEN DictV(Top.items)
    ELSE IF Peek.type = "IDENT"
         THEN IF DictHas(symbols, Peek.value.str)
              THEN DictGet(symbols, Peek.value.str) ELSE RefV(Peek.value.str)
    ELSE IF Peek.type = "LLIST" THEN ListV(<<>>)
    ELSE IF Peek.type = "LDICT" THEN DictV(<<>>)
    ELSE Peek.value

\* d binds k once, to v.
BindsOnce(d, k, v) ==
    /\ Cardinality({n \in 1..Len(d) : d[n].key = k}) = 1
    /\ DictGet(d, k) = v

\* The step stores the value of a field in the dictionary being built.
StoresField ==
    /\ pc \in {"ExpectExprStart", "InList", "InRecordValue"}
    /\ pc' = "InRecordValue"

ProgramLastWrite ==
    Program(<<NameA, LxAssign, <<"1">>, <<",">>, NameA, LxAssign, <<"iquest">>,
              NameX, LxAssign, <<"1">>, <<",">>, NameX, LxAssign, <<"2">>, <<"?">>>>)

\* C14 (last write wins): the step that completes a top-level assignment
\* leaves the name bound once, to the value just assigned, whatever it was
\* bound to before, and the table changes in no other step; the step that
\* stores a field leaves the key bound once in the dictionary, to the value
\* just given; a := 1, a := ¿ x := 1, x := 2 ? returns a = {x: 2}.
C14_LastWriteWins ==
    [][/\ \A name \in IdentNames :
            Binds(name) => BindsOnce(symbols', name, HandedValue)
       /\ (symbols' # symbols) => \E name \in IdentNames : Binds(name)
       /\ StoresField =>
            BindsOnce(stack'[Len(stack')].items,
                      stack'[Len(stack')].key_tok.value.str, HandedValue)
       /\ (source = ProgramLastWrite /\ pc' = "done")
            => result' = <<<<Entry(NameA, DictV(<<Entry(NameX, IntV(2))>>))>>>>]_vars

\* a := 1, a := ¿ x := 1, x := 2 ? has been parsed: the name and the key were
\* both written twice.
C14_Witness ==
    /\ pc = "done"
    /\ source = ProgramLastWrite
    /\ result = <<<<Entry(NameA, DictV(<<Entry(NameX, IntV(2))>>))>>>>

(***************************************************************************)
(* Number literals.                                                        *)
(***************************************************************************)
\* The text is a number literal: an optional minus sign, then digits, or
\* digits '.' digits*, or '.' digits.
IsNumberLexeme(text) ==
    LET b == IF text # <<>> /\ Head(text) = "-" THEN Tail(text) ELSE text
    IN  /\ \A k \in 1..Len(b) : IsDigit(b[k]) \/ b[k] = "."
        /\ Cardinality({k \in 1..Len(b) : b[k] = "."}) <= 1
        /\ \E k \in 1..Len(b) : IsDigit(b[k])

RECURSIVE NumberRun(_, _)
\* The end of the longest run of digits, dots and minus signs from offset k.
NumberRun(src, k) ==
    IF IsDigit(At(src, k)) \/ At(src, k) \in {".", "-"} THEN NumberRun(src, k + 1) ELSE k

\* The end offsets of the number literals that start at offset p: none lies
\* beyond the run of digits, dots and minus signs from p.
NumberEnds(src, p) ==
    {q \in (p + 1)..NumberRun(src, p) : IsNumberLexeme(Slice(src, p, q))}

\* C15 (number literals): in the tokens tokenize returns, where a token
\* starts and a number literal can be read, the token is one NUMBER token
\* that spans the longest such literal; no other text gives a NUMBER token;
\* and a NUMBER token's value is a float if and only if its text holds a
\* '.', an integer otherwise.
C15_NumberLiterals ==
    [][TokenizeReturns =>
          LET starts == TokenStarts(source)
          IN  \A k \in 1..Len(tokens') :
                  LET p == starts[k]
                      q == Match(source, p).end
                      ends == NumberEnds(source, p)
                  IN  /\ tokens'[k].type = "NUMBER" <=> ends # {}
                      /\ tokens'[k].type = "NUMBER" =>
                           /\ q \in ends
                           /\ \A e \in ends : e <= q
                           /\ tokens'[k].value.tag =
                                IF "." \in Range(Slice(source, p, q))
                                THEN "float" ELSE "int"]_vars

\* Tokens of all the forms of a number have been returned: digits, digits
\* with a fraction, digits with a trailing dot, a leading dot, a minus sign.
C15_Witness ==
    /\ pc = "ExpectStatement" /\ i = 0
    /\ \E s \in {<<"1", "-", ".", "1">>, <<"1", ".", " ", "0">>, <<"-", "1", ".", "0">>} :
           /\ source = s
           /\ \A k \in 1..Len(tokens) : tokens[k].type = "NUMBER"
           /\ \E k \in 1..Len(tokens) : tokens[k].value.tag = "float"

(***************************************************************************)
(* The token sequence.                                                     *)
(***************************************************************************)
\* C16 (token position invariant): every token of the sequence tokenize
\* returns has line >= 1 and column >= 1, and its (line, column) is not
\* before the previous token's in lexicographic order.
C16_TokenPositionOrder ==
    /\ \A k \in 1..Len(tokens) : tokens[k].line >= 1 /\ tokens[k].col >= 1
    /\ \A k \in 2..Len(tokens) :
           \/ tokens[k - 1].line < tokens[k].line
           \/ /\ tokens[k - 1].line = tokens[k].line
              /\ tokens[k - 1].col <= tokens[k].col

\* tokenize has returned tokens of two lines, two of them on one line, after
\* a string literal that holds a line break.
C16_Witness ==
    /\ pc = "ExpectStatement" /\ i = 0
    /\ \E k \in 1..Len(tokens) : tokens[k].type = "STRING" /\ "\n" \in Range(tokens[k].value.str)
    /\ \E k \in 2..Len(tokens) : tokens[k - 1].line = tokens[k].line
    /\ \E k \in 2..Len(tokens) : tokens[k - 1].line < tokens[k].line

(***************************************************************************)
(* The symbol table.                                                       *)
(***************************************************************************)
\* The step completes a top-level assignment: the value goes to the frame of
\* _parse_assignment, the only frame left, and parse is back at its loop.
CompletesAssignment ==
    /\ Len(stack) >= 1
    /\ stack[1].kind = "assign"
    /\ stack' = <<>>
    /\ pc' = "ExpectStatement"

\* C17 (symbol-table frame): the table is empty when parse starts; a step
\* changes it only by completing a top-level assignment, and then only the
\* binding of the assigned name; a step that stores a field or a list
\* element, or skips a comma, leaves every top-level binding as it is.
C17_SymbolTableFrame ==
    [][/\ (pc = "tokenize" \/ (pc = "ExpectStatement" /\ i = 0)) => symbols = <<>>
       /\ (symbols' # symbols) =>
            /\ CompletesAssignment
            /\ \A n \in 1..Len(symbols) :
                 symbols[n].key # stack[1].key_tok.value.str
                     => /\ n <= Len(symbols')
                        /\ symbols'[n] = symbols[n]
            /\ Len(symbols') <= Len(symbols) + 1
       /\ (pc' \in {"InList", "InRecordValue", "InRecordKey"} \/ Peek.type = "COMMA")
            => symbols' = symbols]_vars

\* A field whose key is also a top-level name has been stored and the
\* program has been parsed: the top-level binding of that name is as it was.
C17_Witness ==
    /\ pc = "done"
    /\ DictHas(symbols, NameA) /\ DictHas(symbols, NameB)
    /\ DictGet(symbols, NameA) = IntV(1)
    /\ DictGet(symbols, NameB).tag = "dict"
    /\ DictHas(DictGet(symbols, NameB).items, NameA)
    /\ DictGet(DictGet(symbols, NameB).items, NameA) # IntV(1)

(***************************************************************************)
(* The run of parse.                                                       *)
(***************************************************************************)
\* C18 (termination without backtracking): parse, once called, returns the
\* symbol table or raises a syntax error; the cursor stays within
\* 0..len(tokens) and never goes back, so no token is consumed twice; and
\* parse returns only when every token is consumed and no list or dictionary
\* is open.
C18_Termination ==
    /\ [](i \in 0..Len(tokens))
    /\ [][i' >= i]_vars
    /\ [](pc = "done" => (i = Len(tokens) /\ stack = <<>>))
    /\ (pc = "ExpectStatement" /\ i = 0) ~> (pc \in {"done", "failed"})

\* parse has returned after consuming a program with a dictionary and a list
\* in it.
C18_Witness ==
    /\ pc = "done"
    /\ i = Len(tokens)
    /\ \E k \in 1..Len(tokens) : tokens[k].type = "LDICT"
    /\ \E k \in 1..Len(tokens) : tokens[k].type = "LLIST"
    /\ \E k \in 1..Len(tokens) : tokens[k].type = "COMMA"

(***************************************************************************)
(* Errors.                                                                 *)
(***************************************************************************)
\* C19 (first error aborts with no partial result): when tokenize raises, it
\* has stopped at the offending character and no token list reaches the
\* caller; when parse raises, the failing token is not consumed and no
\* symbol table reaches the caller, whatever was assigned before; and after
\* an error nothing more is done.
C19_FirstErrorAborts ==
    [][/\ pc \notin {"lexfail", "failed"}
       /\ pc' = "lexfail" =>
            /\ tokens' = <<>> /\ result' = <<>> /\ i' = 0 /\ symbols' = <<>>
            /\ lexerr'.kind = "SyntaxError" =>
                 /\ Tokenize(source).pos = FirstInvalid(source)
                 /\ Tokenize(source).tokens # <<>> => tokens' # Tokenize(source).tokens
       /\ pc' = "failed" =>
            /\ i' = i
            /\ result' = <<>>
            /\ symbols' = symbols
            /\ perr' # NoError]_vars

\* parse has raised with tokens left unread, after an assignment that was
\* completed: nothing was returned.
C19_Witness ==
    /\ pc = "failed"
    /\ symbols # <<>>
    /\ i + 1 < Len(tokens)
    /\ result = <<>>
    /\ perr # NoError

(***************************************************************************)
(* The scope of a name.                                                    *)
(***************************************************************************)
\* The name is a key already stored in a dictionary that is still open, or
\* the target of the top-level assignment in progress.
LocallyKnown(name) ==
    \/ \E n \in 1..Len(stack) : stack[n].kind = "dict" /\ DictHas(stack[n].items, name)
    \/ stack[1].key_tok.value.str = name

ProgramRecordScope ==
    Program(<<NameA, LxAssign, <<"iquest">>, NameX, LxAssign, <<"1">>, <<",">>,
              NameY, LxAssign, NameX, <<"?">>>>)

ProgramSelfReference == Program(<<NameA, LxAssign, NameA>>)

\* C20 (resolution scope): an identifier used as an expression is looked up
\* in the top-level table as it stands at that moment and nowhere else: a
\* name that is only a key of a dictionary being built, or the target of the
\* assignment in progress, evaluates to its placeholder; ¿ x := 1, y := x ?
\* gives y = {"ref": "x"} and a := a with a unbound gives a = {"ref": "a"}.
C20_ResolutionScope ==
    [][/\ (IdentUse /\ LocallyKnown(Peek.value.str)) =>
            Delivered = IF DictHas(symbols, Peek.value.str)
                        THEN DictGet(symbols, Peek.value.str)
                        ELSE RefV(Peek.value.str)
       /\ (source = ProgramRecordScope /\ pc' = "done") =>
            symbols' = <<Entry(NameA, DictV(<<Entry(NameX, IntV(1)),
                                              Entry(NameY, RefV(NameX))>>))>>
       /\ (source = ProgramSelfReference /\ pc' = "done") =>
            symbols' = <<Entry(NameA, RefV(NameA))>>]_vars

\* a := ¿ x := 1, y := x ? has been parsed: x was a key of the dictionary
\* when y's value was read, and y holds the placeholder for x.
C20_Witness ==
    /\ pc = "done"
    /\ source = ProgramRecordScope
    /\ DictGet(DictGet(symbols, NameA).items, NameX) = IntV(1)
    /\ DictGet(DictGet(symbols, NameA).items, NameY) = RefV(NameX)

====
